---------------------------- MODULE Spec2Model ----------------------------
(***************************************************************************)
(* pwdg: a password generator.  PwdGen::new validates (length, options)    *)
(* and builds four filtered character pools; PwdGen::gen draws the         *)
(* per-category minimums, fills up to length from the combined charset and *)
(* shuffles.  Characters are Unicode scalar values; usize is an unsigned   *)
(* integer of UsizeBits bits.                                              *)
(***************************************************************************)
EXTENDS Integers, Sequences, FiniteSets, TLC

VARIABLES cli, length, options, pwdgen, again, pc, chars, idx, take

vars == <<cli, length, options, pwdgen, again, pc, chars, idx, take>>

-----------------------------------------------------------------------------
(* Bounds of the model *)

\* width of usize in bits
UsizeBits == 4

\* number of distinct words the random source (OsRng) may return on a draw
MaxRand == 2

\* number of distinct layouts (hasher seeds) a HashSet may have
MaxHashSeed == 2

UsizeMax == 2^UsizeBits - 1

RandVals == 0..(MaxRand - 1)

HashSeeds == 0..(MaxHashSeed - 1)

-----------------------------------------------------------------------------
(* Option and Result *)

None == [tag |-> "None"]

Some(v) == [tag |-> "Some", val |-> v]

Ok(v) == [tag |-> "Ok", val |-> v]

Err(e) == [tag |-> "Err", err |-> e]

is_none(o) == o.tag = "None"

unwrap_or(o, d) == IF o.tag = "Some" THEN o.val ELSE d

-----------------------------------------------------------------------------
(* Constants of the program *)

MIN_LENGTH == 8

\* a character is its Unicode scalar value: 'A' is 65, 'a' is 97, '0' is 48
\* ! @ # $ % ^ & * ( ) _ + - = { } [ ] | : ; " ' < > , . ? / ~ \ and the backquote
SPECIAL_CHARS ==
  <<
     33, 64, 35, 36, 37, 94, 38, 42,
     40, 41, 95, 43, 45, 61, 123, 125,
     91, 93, 124, 58, 59, 34, 39, 60,
     62, 44, 46, 63, 47, 126, 92, 96
  >>

\* the inclusive range of characters first..=last, in order
CharRange(first, last) == [i \in 1..(last - first + 1) |-> first + i - 1]

\* 'A'..='Z'
UPPER_RANGE == CharRange(65, 90)

\* 'a'..='z'
LOWER_RANGE == CharRange(97, 122)

\* '0'..='9'
DIGIT_RANGE == CharRange(48, 57)

DEFAULT_PWDGEN_OPTIONS ==
  [min_upper |-> 0, min_lower |-> 0, min_digit |-> 0, min_special |-> 0,
   exclude |-> None]

ErrLength == [kind |-> "Length"]

ErrMinLimitExceeded == [kind |-> "MinLimitExceeded"]

\* a variant that names "upper" whichever category is short
ErrInsufficientCharacters_upper(name) ==
  [kind |-> "InsufficientCharacters", name |-> "upper"]

ErrInsufficientCharacters(name) == [kind |-> "InsufficientCharacters", name |-> name]

-----------------------------------------------------------------------------
(* util::uint *)

\* a variant that wraps as usize::wrapping_add does
checked_add_wrapping(a, b) == Some((a + b) % (UsizeMax + 1))

\* usize::checked_add: None when the sum does not fit in usize
checked_add(a, b) == IF a + b > UsizeMax THEN None ELSE Some(a + b)

RECURSIVE checked_sum_from(_, _, _)
checked_sum_from(acc, items, i) ==
  IF i > Len(items) THEN Some(acc)
  ELSE LET r == checked_add(acc, items[i])
       IN  IF is_none(r) THEN None ELSE checked_sum_from(r.val, items, i + 1)

\* checked_sum: fold of checked_add from T::default() = 0, None at the first overflow
checked_sum(items) == checked_sum_from(0, items, 1)

-----------------------------------------------------------------------------
(* std HashSet<char>: its elements and the seed of its hasher.  Membership *)
(* depends on the elements only; the iteration order depends on the seed.  *)

\* str.chars().collect::<HashSet<char>>()
HashSetOf(str, seed) == [elems |-> {str[i] : i \in 1..Len(str)}, seed |-> seed]

contains(h, c) == c \in h.elems

-----------------------------------------------------------------------------
(* util::filter *)

\* a variant that keeps every character of the range
filtered_range_unfiltered(range, exclude) == range

\* a variant that collects through a HashSet, so that the order of the pool
\* follows the hasher's seed
filtered_range_hash_order(range, exclude) ==
  IF exclude.tag = "Some"
  THEN LET kept == SelectSeq(range, LAMBDA c : ~contains(exclude.val, c))
           m == IF Len(kept) = 0 THEN 0 ELSE exclude.val.seed % Len(kept)
       IN  SubSeq(kept, m + 1, Len(kept)) \o SubSeq(kept, 1, m)
  ELSE range

\* a variant without the negation: it keeps the excluded characters
filtered_range_keeps_excluded(range, exclude) ==
  IF exclude.tag = "Some"
  THEN SelectSeq(range, LAMBDA c : contains(exclude.val, c))
  ELSE range

filtered_range(range, exclude) ==
  IF exclude.tag = "Some"
  THEN SelectSeq(range, LAMBDA c : ~contains(exclude.val, c))
  ELSE range

-----------------------------------------------------------------------------
(* generator: construction *)

\* a variant that checks the sum of the minimums before the length
validate_input_sum_first(len, opts, seed) ==
  LET min_total == checked_sum(<<opts.min_upper, opts.min_lower,
                                 opts.min_digit, opts.min_special>>)
  IN
  IF is_none(min_total) \/ min_total.val > len THEN Err(ErrMinLimitExceeded)
  ELSE
  IF len < MIN_LENGTH THEN Err(ErrLength)
  ELSE
  LET exclude == Some(HashSetOf(unwrap_or(opts.exclude, <<>>), seed))
      upper == filtered_range(UPPER_RANGE, exclude)
      lower == filtered_range(LOWER_RANGE, exclude)
      digit == filtered_range(DIGIT_RANGE, exclude)
      special == filtered_range(SPECIAL_CHARS, exclude)
  IN
  IF Len(upper) < opts.min_upper THEN Err(ErrInsufficientCharacters("upper"))
  ELSE IF Len(lower) < opts.min_lower THEN Err(ErrInsufficientCharacters("lower"))
  ELSE IF Len(digit) < opts.min_digit THEN Err(ErrInsufficientCharacters("digit"))
  ELSE IF Len(special) < opts.min_special THEN Err(ErrInsufficientCharacters("special"))
  ELSE Ok([upper |-> upper, lower |-> lower, digit |-> digit, special |-> special])

\* a variant that checks the pool of special before those of lower and digit
validate_input_special_early(len, opts, seed) ==
  IF len < MIN_LENGTH THEN Err(ErrLength)
  ELSE
  LET min_total == checked_sum(<<opts.min_upper, opts.min_lower,
                                 opts.min_digit, opts.min_special>>)
  IN
  IF is_none(min_total) \/ min_total.val > len THEN Err(ErrMinLimitExceeded)
  ELSE
  LET exclude == Some(HashSetOf(unwrap_or(opts.exclude, <<>>), seed))
      upper == filtered_range(UPPER_RANGE, exclude)
      lower == filtered_range(LOWER_RANGE, exclude)
      digit == filtered_range(DIGIT_RANGE, exclude)
      special == filtered_range(SPECIAL_CHARS, exclude)
  IN
  IF Len(upper) < opts.min_upper THEN Err(ErrInsufficientCharacters("upper"))
  ELSE IF Len(special) < opts.min_special THEN Err(ErrInsufficientCharacters("special"))
  ELSE IF Len(lower) < opts.min_lower THEN Err(ErrInsufficientCharacters("lower"))
  ELSE IF Len(digit) < opts.min_digit THEN Err(ErrInsufficientCharacters("digit"))
  ELSE Ok([upper |-> upper, lower |-> lower, digit |-> digit, special |-> special])

validate_input(len, opts, seed) ==
  IF len < MIN_LENGTH THEN Err(ErrLength)
  ELSE
  LET min_total == checked_sum(<<opts.min_upper, opts.min_lower,
                                 opts.min_digit, opts.min_special>>)
  IN
  IF is_none(min_total) \/ min_total.val > len THEN Err(ErrMinLimitExceeded)
  ELSE
  LET exclude == Some(HashSetOf(unwrap_or(opts.exclude, <<>>), seed))
      upper == filtered_range(UPPER_RANGE, exclude)
      lower == filtered_range(LOWER_RANGE, exclude)
      digit == filtered_range(DIGIT_RANGE, exclude)
      special == filtered_range(SPECIAL_CHARS, exclude)
  IN
  IF Len(upper) < opts.min_upper THEN Err(ErrInsufficientCharacters("upper"))
  ELSE IF Len(lower) < opts.min_lower THEN Err(ErrInsufficientCharacters("lower"))
  ELSE IF Len(digit) < opts.min_digit THEN Err(ErrInsufficientCharacters("digit"))
  ELSE IF Len(special) < opts.min_special THEN Err(ErrInsufficientCharacters("special"))
  ELSE Ok([upper |-> upper, lower |-> lower, digit |-> digit, special |-> special])

\* PwdGen::new; opts is Option<PwdGenOptions>
PwdGen_new(len, opts, seed) ==
  LET o == unwrap_or(opts, DEFAULT_PWDGEN_OPTIONS)
      cset == validate_input(len, o, seed)
  IN  IF cset.tag = "Err" THEN cset
      ELSE Ok([length |-> len,
               options |-> o,
               charset |-> cset.val.upper \o cset.val.lower
                             \o cset.val.digit \o cset.val.special,
               upper |-> cset.val.upper,
               lower |-> cset.val.lower,
               digit |-> cset.val.digit,
               special |-> cset.val.special])

-----------------------------------------------------------------------------
(* rand: SliceRandom over OsRng.  r is the word the random source returns. *)

\* slice.choose(&mut OsRng): None on an empty slice, else a uniformly drawn element
choose(slice, r) ==
  IF Len(slice) = 0 THEN None ELSE Some(slice[(r % Len(slice)) + 1])

Swap(s, i, j) == [s EXCEPT ![i] = s[j], ![j] = s[i]]

RECURSIVE ShuffleFrom(_, _, _)
ShuffleFrom(s, i, r) ==
  IF i < 1 THEN s
  ELSE ShuffleFrom(Swap(s, i + 1, (r % (i + 1)) + 1), i - 1, r)

\* slice.shuffle(&mut OsRng): for i in (1..len).rev() { swap(i, gen_index(i + 1)) }
shuffle(s, r) == ShuffleFrom(s, Len(s) - 1, r)

-----------------------------------------------------------------------------
(* The callers of gen, and the inputs of a run *)

Callers == {"c1", "c2"}

Categories == <<"upper", "lower", "digit", "special">>

\* a variant that draws every minimum from the combined charset
PoolOf_charset(g, cat) == g.charset

\* the pool that the call of add_random_chars for a category is given
PoolOf(g, cat) ==
  CASE cat = "upper" -> g.upper
    [] cat = "lower" -> g.lower
    [] cat = "digit" -> g.digit
    [] cat = "special" -> g.special

\* a variant that counts 0..=count
MinOf_inclusive(o, cat) ==
  CASE cat = "upper" -> o.min_upper + 1
    [] cat = "lower" -> o.min_lower + 1
    [] cat = "digit" -> o.min_digit + 1
    [] cat = "special" -> o.min_special + 1

\* the count that the call of add_random_chars for a category is given
MinOf(o, cat) ==
  CASE cat = "upper" -> o.min_upper
    [] cat = "lower" -> o.min_lower
    [] cat = "digit" -> o.min_digit
    [] cat = "special" -> o.min_special

\* a variant that leaves out the call for special
AfterCategory_skip(cat) ==
  CASE cat = "upper" -> "lower"
    [] cat = "lower" -> "digit"
    [] cat = "digit" -> "sub"
    [] cat = "special" -> "sub"

AfterCategory(cat) ==
  CASE cat = "upper" -> "lower"
    [] cat = "lower" -> "digit"
    [] cat = "digit" -> "special"
    [] cat = "special" -> "sub"

IsCategory(p) == p \in {"upper", "lower", "digit", "special"}

\* every character of the four domains
AllChars == UPPER_RANGE \o LOWER_RANGE \o DIGIT_RANGE \o SPECIAL_CHARS

Without(s, drop) == SelectSeq(s, LAMBDA c : c \notin drop)

\* "Aa1@", the exclusion string of test_password_excluding_characters
ExAa1At == <<65, 97, 49, 64>>

\* exclusion strings tried by the runs that generate
GenExcludes ==
  { None,
    Some(ExAa1At),
    Some(UPPER_RANGE),
    Some(Without(AllChars, {90})),
    Some(AllChars) }

\* exclusion strings tried by the runs that only construct: the above, the
\* empty string, a duplicate and an outside character ("AA b"), each domain
\* alone, pairs of domains, and strings leaving one character of a domain
NewExcludes ==
  GenExcludes \cup
  { Some(<<>>),
    Some(<<65, 65, 32, 98>>),
    Some(LOWER_RANGE),
    Some(DIGIT_RANGE),
    Some(SPECIAL_CHARS),
    Some(UPPER_RANGE \o DIGIT_RANGE),
    Some(LOWER_RANGE \o SPECIAL_CHARS),
    Some(LOWER_RANGE \o DIGIT_RANGE \o SPECIAL_CHARS),
    Some(Without(AllChars, {66, 98, 49, 64})) }

GenMins == {0, 2, UsizeMax}

NewMins == {0, 1, 3, UsizeMax}

GenLengths == 0..MIN_LENGTH

NewLengths == 0..UsizeMax

OptionsOver(mins, excludes) ==
  { None } \cup
  { Some(o) : o \in [min_upper : mins, min_lower : mins, min_digit : mins,
                     min_special : mins, exclude : excludes] }

\* the state before PwdGen::new is called with (length, options); live are the
\* callers that will call gen on the instance
InitWith(lengths, opts, live) ==
  /\ cli = None
  /\ length \in lengths
  /\ options \in opts
  /\ pwdgen = None
  /\ again = None
  /\ pc = [c \in Callers |-> IF c \in live THEN "idle" ELSE "off"]
  /\ chars = [c \in Callers |-> <<>>]
  /\ idx = [c \in Callers |-> 0]
  /\ take = [c \in Callers |-> 0]

Init == InitWith(GenLengths, OptionsOver(GenMins, GenExcludes), {"c1"})

InitNew == InitWith(NewLengths, OptionsOver(NewMins, NewExcludes), {})

\* options with the same minimum for every category
Uniform(min, exclude) ==
  [min_upper |-> min, min_lower |-> min, min_digit |-> min, min_special |-> min,
   exclude |-> exclude]

\* inputs of the runs in which two callers share one instance: pools of one
\* character each ("Bb1@" left), two pools of one character and two empty
\* ones ("B1" left), a charset of one character ("Z" left, with and without
\* a minimum), and an empty charset
ConcOptions ==
  { Some(Uniform(1, Some(Without(AllChars, {66, 98, 49, 64})))),
    Some([Uniform(1, Some(Without(AllChars, {66, 49})))
            EXCEPT !.min_lower = 0, !.min_special = 0]),
    Some([Uniform(0, Some(Without(AllChars, {90}))) EXCEPT !.min_upper = 1]),
    Some(Uniform(0, Some(Without(AllChars, {90})))),
    Some(Uniform(1, Some(Without(AllChars, {90})))),
    Some(Uniform(0, Some(AllChars))) }

InitConc == InitWith({MIN_LENGTH}, ConcOptions, Callers)

-----------------------------------------------------------------------------
(* main: the command line *)

\* a variant in which --strong only raises the minimums that were left at 0
get_options_strong_fills(c) ==
  LET d == DEFAULT_PWDGEN_OPTIONS
      o == IF c.strong
           THEN [d EXCEPT !.min_upper = IF c.min_upper = 0 THEN 1 ELSE c.min_upper,
                          !.min_lower = IF c.min_lower = 0 THEN 1 ELSE c.min_lower,
                          !.min_digit = IF c.min_digit = 0 THEN 1 ELSE c.min_digit,
                          !.min_special = IF c.min_special = 0 THEN 1 ELSE c.min_special]
           ELSE [d EXCEPT !.min_upper = c.min_upper,
                          !.min_lower = c.min_lower,
                          !.min_digit = c.min_digit,
                          !.min_special = c.min_special]
  IN  Ok([o EXCEPT !.exclude = IF c.exclude.tag = "Some"
                               THEN Some(c.exclude.val) ELSE None])

\* get_options: the options built from the parsed command line
get_options(c) ==
  LET d == DEFAULT_PWDGEN_OPTIONS
      o == IF c.strong
           THEN [d EXCEPT !.min_upper = 1,
                          !.min_lower = 1,
                          !.min_digit = 1,
                          !.min_special = 1]
           ELSE [d EXCEPT !.min_upper = c.min_upper,
                          !.min_lower = c.min_lower,
                          !.min_digit = c.min_digit,
                          !.min_special = c.min_special]
      \* cli.exclude.as_deref(): Option<String> to Option<&str>
  IN  Ok([o EXCEPT !.exclude = IF c.exclude.tag = "Some"
                               THEN Some(c.exclude.val) ELSE None])

CliMins == {0, 1, 2, UsizeMax}

CliLengths == {MIN_LENGTH - 1, MIN_LENGTH, MIN_LENGTH + 4}

CliExcludes == {None, Some(<<>>), Some(ExAa1At)}

\* the parsed command lines tried
Clis ==
  [length : CliLengths, min_upper : CliMins, min_lower : CliMins,
   min_digit : CliMins, min_special : CliMins, exclude : CliExcludes,
   strong : BOOLEAN]

\* main after Cli::parse(): run(cli) has not yet built the options
InitCli ==
  /\ cli \in {Some(c) : c \in Clis}
  /\ length = 0
  /\ options = None
  /\ pwdgen = None
  /\ again = None
  /\ pc = [c \in Callers |-> IF c = "c1" THEN "main" ELSE "off"]
  /\ chars = [c \in Callers |-> <<>>]
  /\ idx = [c \in Callers |-> 0]
  /\ take = [c \in Callers |-> 0]

-----------------------------------------------------------------------------
(* Actions *)

\* run: let options = get_options(&cli)?; then pwdg::gen(cli.length, Some(options))
GetOptions ==
  /\ pc["c1"] = "main"
  /\ LET r == get_options(cli.val)
     IN  /\ r.tag = "Ok"
         /\ options' = Some(r.val)
  /\ length' = cli.val.length
  /\ pc' = [pc EXCEPT !["c1"] = "idle"]
  /\ UNCHANGED <<cli, pwdgen, again, chars, idx, take>>

\* let pwdgen = PwdGen::new(length, options)
New ==
  /\ \A c \in Callers : pc[c] # "main"
  /\ pwdgen = None
  /\ \E seed \in HashSeeds : pwdgen' = Some(PwdGen_new(length, options, seed))
  /\ UNCHANGED <<cli, length, options, again, pc, chars, idx, take>>

\* a second PwdGen::new(length, options) with the same arguments
NewAgain ==
  /\ pwdgen # None
  /\ again = None
  /\ \E seed \in HashSeeds : again' = Some(PwdGen_new(length, options, seed))
  /\ UNCHANGED <<cli, length, options, pwdgen, pc, chars, idx, take>>

\* the instance gen is called on: new returned Ok (`?` in the one-shot gen)
Built == pwdgen # None /\ pwdgen.val.tag = "Ok"

Self == pwdgen.val.val

\* gen: let mut chars = Vec::with_capacity(self.length)
GenStart(c) ==
  /\ Built
  /\ pc[c] = "idle"
  /\ pc' = [pc EXCEPT ![c] = "upper"]
  /\ chars' = [chars EXCEPT ![c] = <<>>]
  /\ idx' = [idx EXCEPT ![c] = 0]
  /\ take' = [take EXCEPT ![c] = 0]
  /\ UNCHANGED <<cli, length, options, pwdgen, again>>

\* the buffer after one item of (0..count).filter_map(|_| range.choose(..))
add_random_char(buf, range, r) ==
  LET ch == choose(range, r)
  IN  IF is_none(ch) THEN buf ELSE Append(buf, ch.val)

\* a variant in which the buffer is one scratch buffer kept in the instance
AddRandomChar_shared(c) ==
  /\ IsCategory(pc[c])
  /\ idx[c] < MinOf(Self.options, pc[c])
  /\ \E r \in RandVals :
       chars' = [d \in Callers |->
                   IF pc[d] \in {"idle", "off", "panicked"} THEN chars[d]
                   ELSE add_random_char(chars[d], PoolOf(Self, pc[c]), r)]
  /\ idx' = [idx EXCEPT ![c] = idx[c] + 1]
  /\ UNCHANGED <<cli, length, options, pwdgen, again, pc, take>>

\* add_random_chars: one iteration of chars.extend((0..count).filter_map(..))
AddRandomChar(c) ==
  /\ IsCategory(pc[c])
  /\ idx[c] < MinOf(Self.options, pc[c])
  /\ \E r \in RandVals :
       chars' = [chars EXCEPT
                   ![c] = add_random_char(chars[c], PoolOf(Self, pc[c]), r)]
  /\ idx' = [idx EXCEPT ![c] = idx[c] + 1]
  /\ UNCHANGED <<cli, length, options, pwdgen, again, pc, take>>

\* add_random_chars returns when (0..count) is exhausted
AddRandomCharsDone(c) ==
  /\ IsCategory(pc[c])
  /\ idx[c] >= MinOf(Self.options, pc[c])
  /\ pc' = [pc EXCEPT ![c] = AfterCategory(pc[c])]
  /\ idx' = [idx EXCEPT ![c] = 0]
  /\ UNCHANGED <<cli, length, options, pwdgen, again, chars, take>>

\* .take(self.length - chars.len()): usize subtraction; on underflow a build
\* with overflow checks panics and a build without them wraps
FillStart(c) ==
  /\ pc[c] = "sub"
  /\ IF Self.length >= Len(chars[c])
     THEN /\ take' = [take EXCEPT ![c] = Self.length - Len(chars[c])]
          /\ pc' = [pc EXCEPT ![c] = "fill"]
     ELSE \/ /\ pc' = [pc EXCEPT ![c] = "panicked"]
             /\ UNCHANGED take
          \/ /\ take' = [take EXCEPT
                           ![c] = Self.length - Len(chars[c]) + UsizeMax + 1]
             /\ pc' = [pc EXCEPT ![c] = "fill"]
  /\ UNCHANGED <<cli, length, options, pwdgen, again, chars, idx>>

\* one item of repeat_with(|| *self.charset.choose(..).expect(..)).take(n)
FillChar(c) ==
  /\ pc[c] = "fill"
  /\ take[c] > 0
  /\ \E r \in RandVals :
       LET ch == choose(Self.charset, r)
       IN  IF is_none(ch)
           THEN /\ pc' = [pc EXCEPT ![c] = "panicked"]
                /\ UNCHANGED <<chars, take>>
           ELSE /\ chars' = [chars EXCEPT ![c] = Append(chars[c], ch.val)]
                /\ take' = [take EXCEPT ![c] = take[c] - 1]
                /\ UNCHANGED pc
  /\ UNCHANGED <<cli, length, options, pwdgen, again, idx>>

\* chars.extend(..) returns; chars.shuffle(&mut OsRng)
Shuffle(c) ==
  /\ pc[c] = "fill"
  /\ take[c] = 0
  /\ \E r \in RandVals : chars' = [chars EXCEPT ![c] = shuffle(chars[c], r)]
  /\ pc' = [pc EXCEPT ![c] = "done"]
  /\ UNCHANGED <<cli, length, options, pwdgen, again, idx, take>>

\* chars.into_iter().collect() is returned and the caller is free to call again
Return(c) ==
  /\ pc[c] = "done"
  /\ pc' = [pc EXCEPT ![c] = "idle"]
  /\ chars' = [chars EXCEPT ![c] = <<>>]
  /\ UNCHANGED <<cli, length, options, pwdgen, again, idx, take>>

Gen(c) ==
  \/ GenStart(c)
  \/ AddRandomChar(c)
  \/ AddRandomCharsDone(c)
  \/ FillStart(c)
  \/ FillChar(c)
  \/ Shuffle(c)
  \/ Return(c)

Next == New \/ \E c \in Callers : Gen(c)

NextNew == New \/ NewAgain

Spec == Init /\ [][Next]_vars

SpecNew == InitNew /\ [][NextNew]_vars

NextCli == GetOptions \/ New

\* the command line program up to the construction of the generator
SpecCli == InitCli /\ [][NextCli]_vars

\* two callers share the instance and call gen in any interleaving
SpecConc == InitConc /\ [][Next]_vars

-----------------------------------------------------------------------------
(* What the properties are stated over: the inputs of the run, read without *)
(* the operators of the program                                            *)

\* the options in effect: the defaults when none are given
Opts == IF options.tag = "Some" THEN options.val ELSE DEFAULT_PWDGEN_OPTIONS

Elems(s) == {s[i] : i \in 1..Len(s)}

\* the characters of the exclusion string
Excluded == IF Opts.exclude.tag = "Some" THEN Elems(Opts.exclude.val) ELSE {}

CategoryNames == {"upper", "lower", "digit", "special"}

DomainOf(cat) ==
  CASE cat = "upper" -> Elems(UPPER_RANGE)
    [] cat = "lower" -> Elems(LOWER_RANGE)
    [] cat = "digit" -> Elems(DIGIT_RANGE)
    [] cat = "special" -> Elems(SPECIAL_CHARS)

Minimum(cat) ==
  CASE cat = "upper" -> Opts.min_upper
    [] cat = "lower" -> Opts.min_lower
    [] cat = "digit" -> Opts.min_digit
    [] cat = "special" -> Opts.min_special

\* the sum of the four minimums, as a mathematical integer
MinSum == Opts.min_upper + Opts.min_lower + Opts.min_digit + Opts.min_special

\* the number of characters of a category that are not excluded
PoolSize(cat) == Cardinality(DomainOf(cat) \ Excluded)

Insufficient(cat) == PoolSize(cat) < Minimum(cat)

\* the number of characters of s that belong to a category
CountOf(s, cat) == Cardinality({i \in 1..Len(s) : s[i] \in DomainOf(cat)})

Constructed == pwdgen # None

Result == pwdgen.val

Returned(c) == pc[c] = "done"

-----------------------------------------------------------------------------
(* Properties of gen *)

\* C1: for every input on which PwdGen::new succeeds, every call of gen
\* returns, and what it returns has exactly `length` characters.
C1_GenReturnsLength ==
  \A c \in Callers :
    /\ pc[c] # "panicked"
    /\ Returned(c) => Len(chars[c]) = length

\* C2: every string gen returns holds, for each category, at least that
\* category's minimum of characters of the category.
C2_MinimumCounts ==
  \A c \in Callers :
    Returned(c) => \A cat \in CategoryNames : CountOf(chars[c], cat) >= Minimum(cat)

C2_Witness ==
  /\ Returned("c1")
  /\ Opts.min_lower = 2 /\ Opts.min_special = 2 /\ Opts.min_upper = 0
  /\ MinSum < length
  /\ CountOf(chars["c1"], "lower") = 2

\* C3: no character of a string gen returns is a character of the exclusion
\* string, wherever in gen the character was drawn.
C3_NoExcludedCharacter ==
  \A c \in Callers :
    Returned(c) => \A i \in 1..Len(chars[c]) : chars[c][i] \notin Excluded

C3_Witness ==
  /\ Returned("c1")
  /\ Excluded = Elems(ExAa1At)
  /\ Opts.min_digit = 2
  /\ MinSum < length
  /\ Len(chars["c1"]) = length

\* C4: gen on an instance that PwdGen::new returned never panics.
C4_GenNeverPanics == \A c \in Callers : pc[c] # "panicked"

\* C9: when the minimums sum to exactly length, a string gen returns holds
\* exactly the minimum of each category.
C9_ExactCounts ==
  \A c \in Callers :
    (Returned(c) /\ MinSum = length) =>
      \A cat \in CategoryNames : CountOf(chars[c], cat) = Minimum(cat)

C9_Witness ==
  /\ Returned("c1")
  /\ MinSum = length
  /\ \A cat \in CategoryNames : Minimum(cat) = 2
  /\ Excluded = Elems(ExAa1At)

-----------------------------------------------------------------------------
(* Properties of PwdGen::new *)

\* C5: when length < 8, PwdGen::new fails with Error::Length whatever the
\* minimums and the exclusion string are, and so does the one-shot gen, which
\* generates nothing.
C5_ShortLengthFails ==
  (Constructed /\ length < 8) =>
    /\ Result = Err(ErrLength)
    /\ \A c \in Callers : pc[c] \in {"idle", "off"}

C5_Witness ==
  /\ Constructed
  /\ length = 7
  /\ Opts.min_upper = UsizeMax
  /\ Opts.min_lower = 2
  /\ Opts.exclude = Some(UPPER_RANGE)

\* C6 as claimed: whenever the minimums sum to more than length, PwdGen::new
\* fails with Error::MinLimitExceeded.
C6_Claimed ==
  (Constructed /\ MinSum > length) => Result = Err(ErrMinLimitExceeded)

\* C6: when length >= 8 and the minimums sum to more than length, also when the
\* sum does not fit in usize, PwdGen::new fails with Error::MinLimitExceeded.
C6_SumExceedsLength ==
  (Constructed /\ length >= 8 /\ MinSum > length) => Result = Err(ErrMinLimitExceeded)

C6_Witness ==
  /\ Constructed
  /\ length >= 8
  /\ MinSum > UsizeMax
  /\ (MinSum % (UsizeMax + 1)) <= length
  /\ Result = Err(ErrMinLimitExceeded)

\* the first category, in the order upper, lower, digit, special, whose pool
\* is smaller than its minimum
FirstInsufficient ==
  IF Insufficient("upper") THEN "upper"
  ELSE IF Insufficient("lower") THEN "lower"
  ELSE IF Insufficient("digit") THEN "digit"
  ELSE "special"

\* C7 as claimed: whenever a category's pool is smaller than its minimum,
\* PwdGen::new fails with Error::InsufficientCharacters naming that category.
C7_Claimed ==
  \A cat \in CategoryNames :
    (Constructed /\ Insufficient(cat)) =>
      Result = Err([kind |-> "InsufficientCharacters", name |-> cat])

\* C7: when length >= 8, the minimums sum to at most length and some
\* category's pool is smaller than its minimum, PwdGen::new fails with
\* Error::InsufficientCharacters naming the first such category in the order
\* upper, lower, digit, special.
C7_InsufficientPool ==
  (/\ Constructed
   /\ length >= 8
   /\ MinSum <= length
   /\ \E cat \in CategoryNames : Insufficient(cat))
  => /\ Result.tag = "Err"
     /\ Result.err.kind = "InsufficientCharacters"
     /\ Result.err.name = FirstInsufficient

C7_Witness ==
  /\ Constructed
  /\ length >= 8
  /\ MinSum <= length
  /\ ~Insufficient("upper") /\ ~Insufficient("lower")
  /\ Insufficient("digit")
  /\ Result = Err([kind |-> "InsufficientCharacters", name |-> "digit"])

\* the failure the ordered checks report first, if any
FirstFailure ==
  IF length < 8 THEN Some([kind |-> "Length"])
  ELSE IF MinSum > length THEN Some([kind |-> "MinLimitExceeded"])
  ELSE IF \E cat \in CategoryNames : Insufficient(cat)
       THEN Some([kind |-> "InsufficientCharacters", name |-> FirstInsufficient])
  ELSE None

\* C8: the checks run in the order length, sum of minimums, then the pools of
\* upper, lower, digit, special, and the first check that fails decides the
\* error; PwdGen::new succeeds only when none fails.
C8_FirstFailureWins ==
  Constructed =>
    IF FirstFailure = None THEN Result.tag = "Ok"
    ELSE Result.tag = "Err" /\ Result.err = FirstFailure.val

C8_Witness ==
  /\ Constructed
  /\ length >= 8
  /\ MinSum <= length
  /\ ~Insufficient("upper")
  /\ Insufficient("lower") /\ Insufficient("special")
  /\ Result.tag = "Err" /\ Result.err.name = "lower"

\* C10: a second PwdGen::new with the same arguments returns what the first
\* returned: the same error, or an instance with the same length, options,
\* pools and charset.
C10_NewIsPure == (again # None) => again = pwdgen

C10_Witness ==
  /\ again # None
  /\ again.val.tag = "Ok"
  /\ Excluded = Elems(ExAa1At)
  /\ again.val.val.upper[1] = 66

-----------------------------------------------------------------------------
(* Properties of a shared instance *)

\* what gen guarantees of a buffer it returns
OutputOk(buf) ==
  /\ Len(buf) = length
  /\ \A cat \in CategoryNames : CountOf(buf, cat) >= Minimum(cat)
  /\ \A i \in 1..Len(buf) : buf[i] \notin Excluded

\* C11: once constructed the instance never changes, whatever the callers
\* sharing it do and however their calls of gen interleave, and every string
\* a call returns has the length, the minimum counts and none of the excluded
\* characters, whatever the other caller is doing.
C11_SharedInstance ==
  /\ [](\A c \in Callers : Returned(c) => OutputOk(chars[c]))
  /\ [][Constructed => pwdgen' = pwdgen]_vars

C11_Witness ==
  /\ Returned("c1")
  /\ pc["c2"] = "fill" /\ take["c2"] = 2
  /\ MinSum = 4
  /\ chars["c1"] # chars["c2"]
  /\ \E i \in 1..Len(chars["c2"]) : chars["c2"][i] # chars["c1"][i]

-----------------------------------------------------------------------------
(* Properties of the command line *)

Flags == cli.val

\* C12: the options handed to the engine have every minimum 1 when --strong is
\* set, whatever the --min-* flags say, and the flag values otherwise; the
\* exclusion string is handed over unchanged in both cases.
C12_StrongOverrides ==
  (cli # None /\ pc["c1"] # "main") =>
    /\ options.tag = "Some"
    /\ options.val.exclude = Flags.exclude
    /\ IF Flags.strong
       THEN /\ options.val.min_upper = 1
            /\ options.val.min_lower = 1
            /\ options.val.min_digit = 1
            /\ options.val.min_special = 1
       ELSE /\ options.val.min_upper = Flags.min_upper
            /\ options.val.min_lower = Flags.min_lower
            /\ options.val.min_digit = Flags.min_digit
            /\ options.val.min_special = Flags.min_special

C12_Witness ==
  /\ cli # None
  /\ pc["c1"] # "main"
  /\ Flags.strong
  /\ Flags.min_upper = 2 /\ Flags.min_lower = 0 /\ Flags.min_digit = UsizeMax
  /\ Flags.exclude = Some(ExAa1At)
  /\ options.val.min_upper = 1
  /\ Constructed /\ Result.tag = "Ok"

-----------------------------------------------------------------------------
(* Properties of the pools and of the buffer *)

\* the place of a character in a domain
PlaceIn(domain, ch) == CHOOSE i \in 1..Len(domain) : domain[i] = ch

\* pool is the domain without the excluded characters, in the domain's order
IsFilteredPool(pool, domain) ==
  /\ Elems(pool) = Elems(domain) \ Excluded
  /\ Len(pool) = Cardinality(Elems(domain) \ Excluded)
  /\ \A i \in 1..Len(pool) : \A j \in 1..Len(pool) :
       i < j => PlaceIn(domain, pool[i]) < PlaceIn(domain, pool[j])

\* C13: each pool of a constructed instance is its category's domain with
\* exactly the characters of the exclusion string removed, in the domain's
\* order: duplicates and characters outside the domain change nothing, no
\* exclusion leaves the whole domain and excluding the whole domain leaves an
\* empty pool.
C13_FilteredPools ==
  (Constructed /\ Result.tag = "Ok") =>
    /\ IsFilteredPool(Result.val.upper, UPPER_RANGE)
    /\ IsFilteredPool(Result.val.lower, LOWER_RANGE)
    /\ IsFilteredPool(Result.val.digit, DIGIT_RANGE)
    /\ IsFilteredPool(Result.val.special, SPECIAL_CHARS)
    /\ Excluded \cap Elems(UPPER_RANGE) = {} => Result.val.upper = UPPER_RANGE
    /\ Elems(SPECIAL_CHARS) \subseteq Excluded => Result.val.special = <<>>

C13_Witness ==
  /\ Constructed /\ Result.tag = "Ok"
  /\ Opts.exclude = Some(LOWER_RANGE \o SPECIAL_CHARS)
  /\ Result.val.special = <<>>
  /\ Result.val.lower = <<>>
  /\ Len(Result.val.upper) = 26

\* the minimums of the categories that gen has dealt with before category cat
MinsBefore(cat) ==
  CASE cat = "upper" -> 0
    [] cat = "lower" -> Opts.min_upper
    [] cat = "digit" -> Opts.min_upper + Opts.min_lower
    [] cat = "special" -> Opts.min_upper + Opts.min_lower + Opts.min_digit

\* C14: in gen every iteration of a per-category step appends one character,
\* none is skipped (a pool is empty only when its minimum is 0), so before the
\* fill step the buffer holds exactly the sum of the four minimums, which is
\* at most length: length - chars.len() does not underflow.
C14_MinimumsDrawn ==
  \A c \in Callers :
    /\ pc[c] \in CategoryNames =>
         /\ Len(chars[c]) = MinsBefore(pc[c]) + idx[c]
         /\ idx[c] <= Minimum(pc[c])
         /\ Minimum(pc[c]) > 0 => PoolSize(pc[c]) > 0
    /\ pc[c] = "sub" =>
         /\ Len(chars[c]) = MinSum
         /\ MinSum <= length

C14_Witness ==
  /\ pc["c1"] = "sub"
  /\ Opts.exclude = Some(UPPER_RANGE)
  /\ Opts.min_upper = 0
  /\ Opts.min_lower = 2 /\ Opts.min_digit = 2
  /\ Len(chars["c1"]) = 4

=============================================================================
